---- MODULE Spec2Model ----
(***************************************************************************)
(* Model of the complaint ("reklamáció") tracker of src/complaints-guy.py: *)
(* the record store of DataManager (an insertion-ordered dict persisted as *)
(* one JSON document), the Tk handlers of ComplaintApp that mutate it, and *)
(* the deadline calculator.                                                *)
(*                                                                         *)
(* Conventions.  A Python value that may be None is a sequence of length   *)
(* at most one (<<>> is None).  A dict key that may be missing is modelled *)
(* the same way.  Text that the program parses (day counts, dates) is a    *)
(* sequence of one-character strings, so that parsing is computed; text    *)
(* that the program only strips, lowers and compares is a TLA+ string.     *)
(***************************************************************************)
EXTENDS Integers, Sequences, FiniteSets, TLC

VARIABLES
    complaints,  \* DataManager.complaints: sequence of [id, data], dict order
    disk,        \* the file DATA_FILE
    files,       \* names of the files present in PHOTOS_DIR
    pc,          \* "main" | "details" | "saving" | "down"
    win,         \* the open details window: <<>> or <<[comp_no, is_elitestrom]>>
    last,        \* the last handler run and the message box it showed
    sv,          \* the document before / after the save in progress
    cd,          \* deadline calculator: the record under calculation
    today,       \* deadline calculator: datetime.date.today() as an ordinal
    shown        \* deadline calculator: what the views computed for cd

storeVars == <<complaints, disk, files, pc, win, last, sv>>
calcVars == <<cd, today, shown>>
vars == <<complaints, disk, files, pc, win, last, sv, cd, today, shown>>

-----------------------------------------------------------------------------
(* Bounds of the model *)

MaxPhotos == 2      \* attachments per record
MaxStamp == 1       \* distinct seconds datetime.now() may report
MaxDays == 2        \* largest day count a deadline field holds
MaxAhead == 4       \* days that today may lie after the first day considered
MaxRecords == 2     \* records of a collection handed to get_stats and the search
MaxMonths == 2      \* months the calendar is turned away from the month of today

-----------------------------------------------------------------------------
(* Python helpers *)

None == <<>>
Some(v) == <<v>>

Range(s) == {s[i] : i \in 1..Len(s)}

\* str.strip() on the texts the forms of the model can hold
strip(s) ==
    CASE s = " A1 " -> "A1"
      [] s = " Elitestrom " -> "Elitestrom"
      [] s = "  " -> ""
      [] OTHER -> s

\* str.lower() on the texts the forms of the model can hold
lower(s) ==
    CASE s = "Elitestrom" -> "elitestrom"
      [] s = "ELITESTROM" -> "elitestrom"
      [] s = "Reflex" -> "reflex"
      [] s = "Tempur" -> "tempur"
      [] OTHER -> s

\* truth value of an optional string: None and "" are false
Truthy(opt) == opt # None /\ opt[1] # ""

-----------------------------------------------------------------------------
(* The ordered dict DataManager.complaints *)

Keys(c) == {c[i].id : i \in 1..Len(c)}
Has(c, k) == k \in Keys(c)
IndexOf(c, k) == CHOOSE i \in 1..Len(c) : c[i].id = k
Get(c, k) == c[IndexOf(c, k)].data

\* c[k] = v: an existing key keeps its place, a new key goes to the end
Put(c, k, v) ==
    IF Has(c, k)
    THEN [c EXCEPT ![IndexOf(c, k)] = [id |-> k, data |-> v]]
    ELSE Append(c, [id |-> k, data |-> v])

\* del c[k]
Del(c, k) == SelectSeq(c, LAMBDA e : e.id # k)

-----------------------------------------------------------------------------
(* The JSON document.  A document body is the sequence of its top-level     *)
(* members [key, obj] in file order; an object is the sequence of its       *)
(* members [k, t, s, a, o]: t is the JSON type, s a string's text, a an     *)
(* array's elements (or the characters of a parsed text), o the members of  *)
(* a nested object.                                                         *)

JStr(k, s) == [k |-> k, t |-> "string", s |-> s, a |-> <<>>, o |-> <<>>]
JText(k, chars) == [k |-> k, t |-> "string", s |-> "", a |-> chars, o |-> <<>>]
JNull(k) == [k |-> k, t |-> "null", s |-> "", a |-> <<>>, o |-> <<>>]
JBool(k, b) ==
    [k |-> k, t |-> IF b THEN "true" ELSE "false", s |-> "", a |-> <<>>, o |-> <<>>]
JArr(k, a) == [k |-> k, t |-> "array", s |-> "", a |-> a, o |-> <<>>]
JObj(k, o) == [k |-> k, t |-> "object", s |-> "", a |-> <<>>, o |-> o]

\* json.dump of a value that is None or a str
DumpOpt(k, opt) == IF opt = None THEN JNull(k) ELSE JStr(k, opt[1])

dump_inspection(i) ==
    << JBool("szemle", i.szemle),
       JBool("muhelybe_hozva", i.muhelybe_hozva),
       JBool("megjavitva", i.megjavitva),
       JBool("vissza_vitt", i.vissza_vitt) >>

dump_import_info(m) ==
    << DumpOpt("szamlaszam", m.szamlaszam),
       DumpOpt("datum", m.datum),
       JBool("iroda_feldolgozva", m.iroda_feldolgozva) >>

\* json.dump of one record: a key that is missing in memory is not written
dump_record(d) ==
    << JStr("customer", d.customer),
       JStr("product_name", d.product_name),
       JStr("brand", d.brand),
       JStr("status", d.status),
       JArr("photos", d.photos),
       DumpOpt("manufacturer_response", d.manufacturer_response) >>
    \o (IF d.inspection # None
        THEN << JObj("inspection", dump_inspection(d.inspection[1])) >>
        ELSE << >>)
    \o (IF d.import_info # None
        THEN << JObj("import_info", dump_import_info(d.import_info[1])) >>
        ELSE << >>)
    \o << JText("deadline_days", d.deadline_days) >>

\* variant: json.dump(..., sort_keys=True), the ids in sorted order
json_dump_sort_keys(c) ==
    LET n == Len(c)
        Before(i, j) == c[i].id = "A1" /\ c[j].id # "A1"
        rank(i) == 1 + Cardinality({j \in 1..n : Before(j, i) \/ (~Before(i, j) /\ j < i)})
        at(r) == CHOOSE i \in 1..n : rank(i) = r
    IN  [r \in 1..n |-> [key |-> c[at(r)].id, obj |-> dump_record(c[at(r)].data)]]

\* json.dump(self.complaints, f, ...): the members in dict order
json_dump(c) == [i \in 1..Len(c) |-> [key |-> c[i].id, obj |-> dump_record(c[i].data)]]

HasMember(obj, k) == \E i \in 1..Len(obj) : obj[i].k = k
Member(obj, k) == obj[CHOOSE i \in 1..Len(obj) : obj[i].k = k]

\* json.load of a member that is null or a string
LoadOpt(m) == IF m.t = "null" THEN None ELSE Some(m.s)

load_inspection(o) ==
    [ szemle |-> Member(o, "szemle").t = "true",
      muhelybe_hozva |-> Member(o, "muhelybe_hozva").t = "true",
      megjavitva |-> Member(o, "megjavitva").t = "true",
      vissza_vitt |-> Member(o, "vissza_vitt").t = "true" ]

load_import_info(o) ==
    [ szamlaszam |-> LoadOpt(Member(o, "szamlaszam")),
      datum |-> LoadOpt(Member(o, "datum")),
      iroda_feldolgozva |-> Member(o, "iroda_feldolgozva").t = "true" ]

load_record(obj) ==
    [ customer |-> Member(obj, "customer").s,
      product_name |-> Member(obj, "product_name").s,
      brand |-> Member(obj, "brand").s,
      status |-> Member(obj, "status").s,
      photos |-> Member(obj, "photos").a,
      manufacturer_response |-> LoadOpt(Member(obj, "manufacturer_response")),
      inspection |->
          IF HasMember(obj, "inspection")
          THEN Some(load_inspection(Member(obj, "inspection").o)) ELSE None,
      import_info |->
          IF HasMember(obj, "import_info")
          THEN Some(load_import_info(Member(obj, "import_info").o)) ELSE None,
      deadline_days |-> Member(obj, "deadline_days").a ]

\* json.load(f): a dict in the order of the members of the file
json_load(body) ==
    [i \in 1..Len(body) |-> [id |-> body[i].key, data |-> load_record(body[i].obj)]]

(* The file DATA_FILE: absent, empty (just truncated), a proper prefix of a  *)
(* document (never parsable: the closing brace is written last), or a whole  *)
(* document.                                                                 *)
Absent == [kind |-> "absent", body |-> <<>>]
Truncated == [kind |-> "empty", body |-> <<>>]
Partial == [kind |-> "partial", body |-> <<>>]
Doc(c) == [kind |-> "json", body |-> json_dump(c)]

\* variant: json.load outside any try, so an unparsable file raises
load_complaints_no_try(d) ==
    IF d.kind # "absent"
    THEN IF d.kind = "json"
         THEN [raised |-> FALSE, complaints |-> json_load(d.body)]
         ELSE [raised |-> TRUE, complaints |-> <<>>]
    ELSE [raised |-> FALSE, complaints |-> <<>>]

\* DataManager.load_complaints: the new self.complaints, and whether it raised
load_complaints(d) ==
    IF d.kind # "absent"
    THEN IF d.kind = "json"
         THEN [raised |-> FALSE, complaints |-> json_load(d.body)]
         ELSE [raised |-> FALSE, complaints |-> <<>>]
    ELSE [raised |-> FALSE, complaints |-> <<>>]

-----------------------------------------------------------------------------
(* Handlers of ComplaintApp, each as the function it computes: the message  *)
(* box it shows before any save ("" for none), the new collection, the new  *)
(* content of PHOTOS_DIR, and whether it goes on to save_complaints().      *)

RECURSIVE lstrip_chars(_)
lstrip_chars(s) ==
    IF s # <<>> /\ Head(s) = " " THEN lstrip_chars(Tail(s)) ELSE s

RECURSIVE rstrip_chars(_)
rstrip_chars(s) ==
    IF s # <<>> /\ s[Len(s)] = " " THEN rstrip_chars(SubSeq(s, 1, Len(s) - 1)) ELSE s

\* str.strip() on a text held as characters
strip_chars(s) == rstrip_chars(lstrip_chars(s))

NewInspection ==
    [szemle |-> FALSE, muhelybe_hozva |-> FALSE, megjavitva |-> FALSE, vissza_vitt |-> FALSE]

NewImportInfo == [szamlaszam |-> None, datum |-> None, iroda_feldolgozva |-> FALSE]

\* variant: the brand is compared as typed, not lowered
complaint_data_exact_brand(cust, prod, br, dl_days) ==
    [ customer |-> cust,
      product_name |-> prod,
      brand |-> br,
      status |-> "open",
      photos |-> <<>>,
      manufacturer_response |-> None,
      inspection |-> IF br = "Elitestrom" THEN Some(NewInspection) ELSE None,
      import_info |-> IF br = "Elitestrom" THEN None ELSE Some(NewImportInfo),
      deadline_days |-> dl_days ]

\* the dict complaint_data built by save_new_complaint
complaint_data(cust, prod, br, dl_days) ==
    [ customer |-> cust,
      product_name |-> prod,
      brand |-> br,
      status |-> "open",
      photos |-> <<>>,
      manufacturer_response |-> None,
      inspection |-> IF lower(br) = "elitestrom" THEN Some(NewInspection) ELSE None,
      import_info |-> IF lower(br) = "elitestrom" THEN None ELSE Some(NewImportInfo),
      deadline_days |-> dl_days ]

\* variant: the check for an existing id is missing
save_new_complaint_overwrite(c, fs, form) ==
    LET c_no == strip(form.comp_no)
        cust == strip(form.customer)
        prod == strip(form.product)
        br == strip(form.brand)
        dl_days == strip_chars(form.deadline_days)
    IN  IF c_no = "" \/ cust = "" \/ prod = "" \/ br = ""
        THEN [msg |-> "required", complaints |-> c, files |-> fs, save |-> FALSE]
        ELSE [msg |-> "",
              complaints |-> Put(c, c_no, complaint_data(cust, prod, br, dl_days)),
              files |-> fs, save |-> TRUE]

save_new_complaint(c, fs, form) ==
    LET c_no == strip(form.comp_no)
        cust == strip(form.customer)
        prod == strip(form.product)
        br == strip(form.brand)
        dl_days == strip_chars(form.deadline_days)
    IN  IF c_no = "" \/ cust = "" \/ prod = "" \/ br = ""
        THEN [msg |-> "required", complaints |-> c, files |-> fs, save |-> FALSE]
        ELSE IF Has(c, c_no)
        THEN [msg |-> "already_exists", complaints |-> c, files |-> fs, save |-> FALSE]
        ELSE [msg |-> "",
              complaints |-> Put(c, c_no, complaint_data(cust, prod, br, dl_days)),
              files |-> fs, save |-> TRUE]

\* get_selected_complaint_number() gave nothing the handlers accept
NoSelection(sel) == sel = None \/ sel[1] = ""

\* variant: the check that the selected record exists is missing
delete_complaint_nocheck(c, fs, sel, confirm, failed) ==
    IF NoSelection(sel)
    THEN [msg |-> "no_selection", complaints |-> c, files |-> fs, save |-> FALSE]
    ELSE IF confirm
    THEN [msg |-> "", complaints |-> Del(c, sel[1]), files |-> fs, save |-> TRUE]
    ELSE [msg |-> "", complaints |-> c, files |-> fs, save |-> FALSE]

\* failed: the files whose os.remove raises
delete_complaint(c, fs, sel, confirm, failed) ==
    IF NoSelection(sel)
    THEN [msg |-> "no_selection", complaints |-> c, files |-> fs, save |-> FALSE]
    ELSE IF ~Has(c, sel[1])
    THEN [msg |-> "not_exists", complaints |-> c, files |-> fs, save |-> FALSE]
    ELSE IF confirm
    THEN [msg |-> "",
          complaints |-> Del(c, sel[1]),
          files |-> fs \ (Range(Get(c, sel[1]).photos) \ failed),
          save |-> TRUE]
    ELSE [msg |-> "", complaints |-> c, files |-> fs, save |-> FALSE]

\* the checks of view_details_window and what the window captures when it opens
view_details_window(c, sel) ==
    IF NoSelection(sel)
    THEN [msg |-> "no_selection", win |-> None]
    ELSE IF ~Has(c, sel[1])
    THEN [msg |-> "not_exists", win |-> None]
    ELSE [msg |-> "",
          win |-> Some([comp_no |-> sel[1],
                        is_elitestrom |-> lower(Get(c, sel[1]).brand) = "elitestrom"])]

\* comp_data after save_changes, for the window w and the content of its fields
changed_data(comp_data, w, form) ==
    LET d == [comp_data EXCEPT
                  !.customer = strip(form.customer),
                  !.product_name = strip(form.product),
                  !.brand = strip(form.brand),
                  !.status = strip(form.status),
                  !.manufacturer_response = Some(strip(form.man_response)),
                  !.deadline_days = strip_chars(form.deadline_days)]
        insp == IF d.inspection = None THEN NewInspection ELSE d.inspection[1]
        imp == IF d.import_info = None THEN NewImportInfo ELSE d.import_info[1]
    IN  IF w.is_elitestrom
        THEN [d EXCEPT
                  !.inspection = Some([szemle |-> form.i_vars.szemle = "igen",
                                       muhelybe_hozva |-> form.i_vars.muhelybe_hozva = "igen",
                                       megjavitva |-> form.i_vars.megjavitva = "igen",
                                       vissza_vitt |-> form.i_vars.vissza_vitt = "igen"]),
                  !.import_info = None]
        ELSE [d EXCEPT
                  !.import_info = Some([imp EXCEPT
                                            !.szamlaszam = Some(strip(form.inv_no)),
                                            !.datum = Some(strip(form.inv_date)),
                                            !.iroda_feldolgozva = form.office = "igen"]),
                  !.inspection = None]

save_changes(c, fs, w, form) ==
    [msg |-> "",
     complaints |-> Put(c, w.comp_no, changed_data(Get(c, w.comp_no), w, form)),
     files |-> fs, save |-> TRUE]

\* list.remove(x): the first occurrence goes
RECURSIVE RemoveFirst(_, _)
RemoveFirst(s, x) ==
    IF s = <<>> THEN <<>>
    ELSE IF Head(s) = x THEN Tail(s)
    ELSE <<Head(s)>> \o RemoveFirst(Tail(s), x)

\* variant: when os.remove fails the list is left as it is and nothing is saved
delete_selected_file_keep_on_failure(c, fs, w, idx, confirm, rm_ok) ==
    LET comp_data == Get(c, w.comp_no) IN
    IF idx = 0
    THEN [msg |-> "no_file_selected", complaints |-> c, files |-> fs, save |-> FALSE]
    ELSE IF confirm /\ rm_ok
    THEN LET file_name == comp_data.photos[idx] IN
         [msg |-> "",
          complaints |-> Put(c, w.comp_no,
              [comp_data EXCEPT !.photos = RemoveFirst(comp_data.photos, file_name)]),
          files |-> fs \ {file_name},
          save |-> TRUE]
    ELSE [msg |-> "", complaints |-> c, files |-> fs, save |-> FALSE]

\* idx: the selected row of files_listbox (0: none); rm_ok: os.remove succeeds
delete_selected_file(c, fs, w, idx, confirm, rm_ok) ==
    LET comp_data == Get(c, w.comp_no) IN
    IF idx = 0
    THEN [msg |-> "no_file_selected", complaints |-> c, files |-> fs, save |-> FALSE]
    ELSE IF confirm
    THEN LET file_name == comp_data.photos[idx] IN
         [msg |-> "",
          complaints |-> Put(c, w.comp_no,
              [comp_data EXCEPT !.photos = RemoveFirst(comp_data.photos, file_name)]),
          files |-> IF rm_ok THEN fs \ {file_name} ELSE fs,
          save |-> TRUE]
    ELSE [msg |-> "", complaints |-> c, files |-> fs, save |-> FALSE]

\* f"{comp_no}_{timestamp}{ext}"
new_filename(comp_no, stamp, ext) == comp_no \o "_" \o ToString(stamp) \o ext

\* variant: the status of the record is not asked
add_media_any_status(c, fs, sel, file_path, stamp, copy_ok) ==
    IF NoSelection(sel)
    THEN [msg |-> "no_selection", complaints |-> c, files |-> fs, save |-> FALSE]
    ELSE IF ~Has(c, sel[1])
    THEN [msg |-> "not_exists", complaints |-> c, files |-> fs, save |-> FALSE]
    ELSE IF file_path = None
    THEN [msg |-> "", complaints |-> c, files |-> fs, save |-> FALSE]
    ELSE IF ~copy_ok
    THEN [msg |-> "copy_error", complaints |-> c, files |-> fs, save |-> FALSE]
    ELSE LET comp == Get(c, sel[1])
             name == new_filename(sel[1], stamp, file_path[1])
         IN  [msg |-> "",
              complaints |-> Put(c, sel[1], [comp EXCEPT !.photos = Append(@, name)]),
              files |-> fs \cup {name},
              save |-> TRUE]

\* file_path: None when the file dialog is cancelled, else the extension of
\* the chosen file; copy_ok: shutil.copy2 succeeds
add_media(c, fs, sel, file_path, stamp, copy_ok) ==
    IF NoSelection(sel)
    THEN [msg |-> "no_selection", complaints |-> c, files |-> fs, save |-> FALSE]
    ELSE IF ~Has(c, sel[1])
    THEN [msg |-> "not_exists", complaints |-> c, files |-> fs, save |-> FALSE]
    ELSE IF Get(c, sel[1]).status = "closed"
    THEN [msg |-> "closed_complaint", complaints |-> c, files |-> fs, save |-> FALSE]
    ELSE IF file_path = None
    THEN [msg |-> "", complaints |-> c, files |-> fs, save |-> FALSE]
    ELSE IF ~copy_ok
    THEN [msg |-> "copy_error", complaints |-> c, files |-> fs, save |-> FALSE]
    ELSE LET comp == Get(c, sel[1])
             name == new_filename(sel[1], stamp, file_path[1])
         IN  [msg |-> "",
              complaints |-> Put(c, sel[1], [comp EXCEPT !.photos = Append(@, name)]),
              files |-> fs \cup {name},
              save |-> TRUE]

\* variant: the status is set but save_complaints() is not called
close_complaint_nosave(c, fs, sel, confirm) ==
    IF NoSelection(sel)
    THEN [msg |-> "no_selection", complaints |-> c, files |-> fs, save |-> FALSE]
    ELSE IF ~Has(c, sel[1])
    THEN [msg |-> "not_exists", complaints |-> c, files |-> fs, save |-> FALSE]
    ELSE IF Get(c, sel[1]).status = "closed"
    THEN [msg |-> "already_closed", complaints |-> c, files |-> fs, save |-> FALSE]
    ELSE IF confirm
    THEN [msg |-> "",
          complaints |-> Put(c, sel[1], [Get(c, sel[1]) EXCEPT !.status = "closed"]),
          files |-> fs, save |-> FALSE]
    ELSE [msg |-> "", complaints |-> c, files |-> fs, save |-> FALSE]

close_complaint(c, fs, sel, confirm) ==
    IF NoSelection(sel)
    THEN [msg |-> "no_selection", complaints |-> c, files |-> fs, save |-> FALSE]
    ELSE IF ~Has(c, sel[1])
    THEN [msg |-> "not_exists", complaints |-> c, files |-> fs, save |-> FALSE]
    ELSE IF Get(c, sel[1]).status = "closed"
    THEN [msg |-> "already_closed", complaints |-> c, files |-> fs, save |-> FALSE]
    ELSE IF confirm
    THEN [msg |-> "",
          complaints |-> Put(c, sel[1], [Get(c, sel[1]) EXCEPT !.status = "closed"]),
          files |-> fs, save |-> TRUE]
    ELSE [msg |-> "", complaints |-> c, files |-> fs, save |-> FALSE]

-----------------------------------------------------------------------------
(* What the user can enter *)

\* the row selected in the list: none, a record, or an id that is not there
Selections == {None, Some("A1"), Some("ZZZ")}

CreateForms ==
    [ comp_no : {"A1", " A1 ", ""},
      customer : {"Kiss", "  "},
      product : {"Matrac"},
      brand : {"Elitestrom", "ELITESTROM", "Reflex", ""},
      deadline_days : {<<"3", "0">>} ]

Nem == [szemle |-> "nem", muhelybe_hozva |-> "nem", megjavitva |-> "nem", vissza_vitt |-> "nem"]

EditPack(n) ==
    CASE n = 1 ->
           [ customer |-> "Kiss", product |-> "Matrac", brand |-> "",
             status |-> "open", man_response |-> "", deadline_days |-> <<"3", "0">>,
             i_vars |-> Nem, inv_no |-> "", inv_date |-> "", office |-> "nem" ]
      [] n = 2 ->
           [ customer |-> "Kiss", product |-> "Matrac", brand |-> "",
             status |-> "closed", man_response |-> "ok", deadline_days |-> <<"1", "5">>,
             i_vars |-> [Nem EXCEPT !.szemle = "igen"],
             inv_no |-> "S1", inv_date |-> "2024-01-05", office |-> "igen" ]
      [] OTHER ->
           [ customer |-> "Kiss", product |-> "Matrac", brand |-> "",
             status |-> "kesz", man_response |-> "  ", deadline_days |-> <<" ", "-", "5">>,
             i_vars |-> Nem, inv_no |-> "", inv_date |-> "", office |-> "nem" ]

EditForms ==
    {[EditPack(n) EXCEPT !.brand = b] : n \in 1..3, b \in {"Elitestrom", " Elitestrom ", "Reflex"}}

Exts == {".jpg"}

(* A second, narrower choice of inputs, for collections of two records *)

SelectionsTwo == {Some("A1"), Some("B2")}

CreateFormsTwo ==
    [ comp_no : {"A1", "B2"},
      customer : {"Kiss"},
      product : {"Matrac"},
      brand : {"Elitestrom", "Reflex"},
      deadline_days : {<<"3", "0">>} ]

EditFormsTwo == {[EditPack(2) EXCEPT !.brand = b] : b \in {"Elitestrom", "Reflex"}}

-----------------------------------------------------------------------------
(* The store as a state machine *)

NoCalc == <<>>

Init ==
    /\ disk \in {Absent, Partial}
    /\ complaints = load_complaints(disk).complaints
    /\ files = {}
    /\ pc = "main"
    /\ win = None
    /\ last = [op |-> "load_complaints", msg |-> ""]
    /\ sv = [old |-> disk, new |-> disk]
    /\ cd = NoCalc /\ today = 0 /\ shown = NoCalc

\* the effect of a handler: r is what it computed; a handler that saves has
\* opened DATA_FILE for writing, which truncates it, when the step ends
Handle(op, r) ==
    /\ complaints' = r.complaints
    /\ files' = r.files
    /\ IF r.save
       THEN /\ disk' = Truncated
            /\ sv' = [old |-> disk, new |-> Doc(r.complaints)]
            /\ pc' = "saving"
            /\ last' = [op |-> op, msg |-> ""]
       ELSE /\ last' = [op |-> op, msg |-> r.msg]
            /\ UNCHANGED <<disk, sv, pc>>

SaveNewComplaint(forms) ==
    /\ pc = "main"
    /\ \E form \in forms :
           Handle("save_new_complaint", save_new_complaint(complaints, files, form))
    /\ UNCHANGED <<win, calcVars>>

DeleteComplaint(sels) ==
    /\ pc = "main"
    /\ \E sel \in sels, confirm \in BOOLEAN :
         \E failed \in (IF ~NoSelection(sel) /\ Has(complaints, sel[1]) /\ confirm
                        THEN SUBSET Range(Get(complaints, sel[1]).photos) ELSE {{}}) :
           Handle("delete_complaint", delete_complaint(complaints, files, sel, confirm, failed))
    /\ UNCHANGED <<win, calcVars>>

ViewDetailsWindow(sels) ==
    /\ pc = "main"
    /\ \E sel \in sels :
         LET r == view_details_window(complaints, sel) IN
         /\ win' = r.win
         /\ pc' = IF r.win = None THEN "main" ELSE "details"
         /\ last' = [op |-> "view_details_window", msg |-> r.msg]
    /\ UNCHANGED <<complaints, disk, files, sv, calcVars>>

SaveChanges(forms) ==
    /\ pc = "details"
    /\ \E form \in forms :
           Handle("save_changes", save_changes(complaints, files, win[1], form))
    /\ UNCHANGED <<win, calcVars>>

DeleteSelectedFile ==
    /\ pc = "details"
    /\ \E idx \in 0..Len(Get(complaints, win[1].comp_no).photos),
          confirm \in BOOLEAN, rm_ok \in BOOLEAN :
           Handle("delete_selected_file",
                  delete_selected_file(complaints, files, win[1], idx, confirm, rm_ok))
    /\ UNCHANGED <<win, calcVars>>

\* the Mégse button or the Escape key: win.destroy()
CancelDetails ==
    /\ pc = "details"
    /\ pc' = "main"
    /\ win' = None
    /\ last' = [op |-> "win.destroy", msg |-> ""]
    /\ UNCHANGED <<complaints, disk, files, sv, calcVars>>

AddMedia(sels) ==
    /\ pc = "main"
    /\ \E sel \in sels, file_path \in {None} \cup {Some(e) : e \in Exts},
          stamp \in 1..MaxStamp, copy_ok \in BOOLEAN :
         /\ (~NoSelection(sel) /\ Has(complaints, sel[1]))
                => Len(Get(complaints, sel[1]).photos) < MaxPhotos
         /\ Handle("add_media", add_media(complaints, files, sel, file_path, stamp, copy_ok))
    /\ UNCHANGED <<win, calcVars>>

CloseComplaint(sels) ==
    /\ pc = "main"
    /\ \E sel \in sels, confirm \in BOOLEAN :
           Handle("close_complaint", close_complaint(complaints, files, sel, confirm))
    /\ UNCHANGED <<win, calcVars>>

\* json.dump has written a first part of the document to the file
WriteChunk ==
    /\ pc = "saving"
    /\ disk = Truncated
    /\ disk' = Partial
    /\ UNCHANGED <<complaints, files, pc, win, last, sv, calcVars>>

\* json.dump has written the rest and the file is closed; the handler shows
\* its success box and returns (save_changes also destroys its window)
FinishSave ==
    /\ pc = "saving"
    /\ disk' = sv.new
    /\ sv' = [old |-> sv.new, new |-> sv.new]
    /\ last' = [last EXCEPT !.msg = "Siker"]
    /\ IF last.op = "delete_selected_file"
       THEN pc' = "details" /\ win' = win
       ELSE pc' = "main" /\ win' = None
    /\ UNCHANGED <<complaints, files, calcVars>>

\* the process ends: the window is closed, or the process is killed
Exit ==
    /\ pc # "down"
    /\ pc' = "down"
    /\ complaints' = <<>>
    /\ win' = None
    /\ last' = [op |-> "exit", msg |-> ""]
    /\ UNCHANGED <<disk, files, sv, calcVars>>

\* the program is started: DataManager.__init__
Start ==
    /\ pc = "down"
    /\ LET r == load_complaints(disk) IN
         /\ complaints' = r.complaints
         /\ pc' = IF r.raised THEN "down" ELSE "main"
         /\ last' = [op |-> "load_complaints", msg |-> IF r.raised THEN "exception" ELSE ""]
    /\ sv' = [old |-> disk, new |-> disk]
    /\ UNCHANGED <<disk, files, win, calcVars>>

Next ==
    \/ SaveNewComplaint(CreateForms)
    \/ DeleteComplaint(Selections)
    \/ ViewDetailsWindow(Selections)
    \/ SaveChanges(EditForms)
    \/ DeleteSelectedFile
    \/ CancelDetails
    \/ AddMedia(Selections)
    \/ CloseComplaint(Selections)
    \/ WriteChunk
    \/ FinishSave
    \/ Exit
    \/ Start

Spec == Init /\ [][Next]_vars

\* collections of two records, without attachments
NextTwo ==
    \/ SaveNewComplaint(CreateFormsTwo)
    \/ DeleteComplaint(SelectionsTwo)
    \/ ViewDetailsWindow(SelectionsTwo)
    \/ SaveChanges(EditFormsTwo)
    \/ CancelDetails
    \/ CloseComplaint(SelectionsTwo)
    \/ WriteChunk
    \/ FinishSave
    \/ Exit
    \/ Start

SpecTwo == Init /\ [][NextTwo]_vars

-----------------------------------------------------------------------------
(* Claims about the record store *)

\* the form's required fields (id, customer, product, brand) are all filled
RequiredFilled(form) ==
    /\ strip(form.comp_no) # ""
    /\ strip(form.customer) # ""
    /\ strip(form.product) # ""
    /\ strip(form.brand) # ""

Rejected(c, fs, msg) == [msg |-> msg, complaints |-> c, files |-> fs, save |-> FALSE]

\* C1, as stated: whatever else the form holds, a create whose id is already
\* in the collection reports the duplicate-id error.
C1_Original ==
    \A form \in CreateForms :
        Has(complaints, strip(form.comp_no))
            => save_new_complaint(complaints, files, form).msg = "already_exists"

\* C1, amended: ids are unique in the collection; a create whose required
\* fields are filled and whose id is already in the collection reports the
\* duplicate-id error, changes neither the collection nor the attachments
\* and does not save; and every step that ends with the duplicate-id error
\* shown leaves the collection and the persisted document as they were.
C1_DuplicateCreateRejected ==
    /\ [](Len(complaints) = Cardinality(Keys(complaints)))
    /\ [](\A form \in CreateForms :
            (RequiredFilled(form) /\ Has(complaints, strip(form.comp_no)))
                => save_new_complaint(complaints, files, form)
                       = Rejected(complaints, files, "already_exists"))
    /\ [][last' = [op |-> "save_new_complaint", msg |-> "already_exists"]
            => (complaints' = complaints /\ disk' = disk)]_vars

\* a second create of "A1" was refused; the record and its document are there
C1_Witness ==
    /\ last = [op |-> "save_new_complaint", msg |-> "already_exists"]
    /\ Keys(complaints) = {"A1"}
    /\ disk = Doc(complaints)

\* C2: delete, edit, close and attach-file on an id that is not in the
\* collection report the not-found error, change nothing and do not save;
\* and every step that ends with the not-found error shown leaves the
\* collection, the persisted document and the attachments as they were.
C2_NotFoundChangesNothing ==
    /\ [](\A sel \in Selections :
            (~NoSelection(sel) /\ ~Has(complaints, sel[1])) =>
                /\ \A confirm \in BOOLEAN :
                     /\ delete_complaint(complaints, files, sel, confirm, {})
                            = Rejected(complaints, files, "not_exists")
                     /\ close_complaint(complaints, files, sel, confirm)
                            = Rejected(complaints, files, "not_exists")
                /\ view_details_window(complaints, sel)
                       = [msg |-> "not_exists", win |-> None]
                /\ \A file_path \in {None} \cup {Some(e) : e \in Exts},
                      stamp \in 1..MaxStamp, copy_ok \in BOOLEAN :
                       add_media(complaints, files, sel, file_path, stamp, copy_ok)
                           = Rejected(complaints, files, "not_exists"))
    /\ [][last'.msg = "not_exists"
            => (complaints' = complaints /\ disk' = disk /\ files' = files
                /\ pc' = pc /\ win' = win)]_vars

\* deleting an id that is not there was refused, with a record in the collection
C2_Witness ==
    /\ last = [op |-> "delete_complaint", msg |-> "not_exists"]
    /\ complaints # <<>>
    /\ disk = Doc(complaints)

\* C3: whenever a handler has returned, the persisted document is the
\* in-memory collection (same ids, order and field values), unless nothing
\* was saved since a start that found no parsable document and the
\* collection is still empty; in particular after every success box.
C3_PersistedEqualsMemory ==
    /\ pc \in {"main", "details"}
           => (disk = Doc(complaints) \/ (disk.kind # "json" /\ complaints = <<>>))
    /\ last.msg = "Siker" => disk = Doc(complaints)

\* an attachment of a closed record was deleted and the change saved
C3_Witness ==
    /\ last = [op |-> "delete_selected_file", msg |-> "Siker"]
    /\ complaints # <<>>
    /\ Get(complaints, "A1").status = "closed"

\* C4, as stated: at every point of a save, and after a save that was
\* interrupted, the document is the whole previous one or the whole new one.
C4_SaveAtomic == disk = sv.old \/ disk = sv.new

\* C5: for every collection the program holds, loading what save writes
\* gives the same collection: the same ids in the same order and every field
\* of every record unchanged; and a collection just loaded from a document
\* is the one that was saved to it.
C5_SaveLoadRoundTrip ==
    /\ load_complaints(Doc(complaints)) = [raised |-> FALSE, complaints |-> complaints]
    /\ (last.op = "load_complaints" /\ disk.kind = "json") => Doc(complaints) = disk

\* two records, the later id first, one with a null manufacturer response and
\* one with a string, one of each sub-record, loaded from the document
C5_Witness ==
    /\ last.op = "load_complaints"
    /\ Len(complaints) = 2
    /\ complaints[1].id = "B2"
    /\ complaints[1].data.manufacturer_response = None
    /\ complaints[1].data.import_info # None
    /\ complaints[2].data.manufacturer_response = Some("ok")
    /\ complaints[2].data.inspection # None

\* C6: load never raises, and when the document is absent or cannot be
\* parsed the collection is empty afterwards.
C6_LoadNeverRaises ==
    /\ \A d \in {Absent, Truncated, Partial} :
           load_complaints(d) = [raised |-> FALSE, complaints |-> <<>>]
    /\ last.op = "load_complaints"
           => /\ last.msg # "exception"
              /\ pc = "main"
              /\ disk.kind # "json" => complaints = <<>>

\* the program was started on the empty file an interrupted save left behind
C6_Witness ==
    /\ last.op = "load_complaints"
    /\ disk = Truncated
    /\ pc = "main"
    /\ complaints = <<>>

ExactlyOne(d) == (d.inspection # None) # (d.import_info # None)

\* a create has just added the last record of the collection
JustCreated ==
    /\ last.op = "save_new_complaint"
    /\ last.msg \in {"", "Siker"}
    /\ pc \in {"saving", "main"}

Created == complaints[Len(complaints)].data

\* C7, as stated: every record holds exactly one of inspection / import_info,
\* and a record gets inspection at creation iff its brand is "Elitestrom".
C7_Original ==
    /\ \A i \in 1..Len(complaints) : ExactlyOne(complaints[i].data)
    /\ JustCreated => (Created.inspection # None <=> Created.brand = "Elitestrom")

\* C7, amended: every record holds exactly one of inspection / import_info,
\* and a record gets inspection at creation iff its brand is "Elitestrom"
\* in any letter case, and import_info otherwise.
C7_ExactlyOneSubRecord ==
    /\ \A i \in 1..Len(complaints) : ExactlyOne(complaints[i].data)
    /\ JustCreated =>
          /\ Created.inspection # None <=> lower(Created.brand) = "elitestrom"
          /\ Created.import_info # None <=> lower(Created.brand) # "elitestrom"

\* a record of brand "ELITESTROM" was created and holds inspection
C7_Witness ==
    /\ JustCreated
    /\ Created.brand = "ELITESTROM"
    /\ Created.inspection # None
    /\ Created.import_info = None

\* C8, as stated: an edit-save that changes the brand from a non-Elitestrom
\* brand to "Elitestrom" leaves inspection and no import_info, and one that
\* changes it from "Elitestrom" to another brand leaves import_info and no
\* inspection.
C8_BrandSwitchSwaps ==
    [][(pc = "details" /\ last'.op = "save_changes") =>
        LET old == Get(complaints, win[1].comp_no)
            new == Get(complaints', win[1].comp_no)
        IN  /\ (old.brand # "Elitestrom" /\ new.brand = "Elitestrom")
                => (new.inspection # None /\ new.import_info = None)
            /\ (old.brand = "Elitestrom" /\ new.brand # "Elitestrom")
                => (new.import_info # None /\ new.inspection = None)]_vars

-----------------------------------------------------------------------------
(* The deadline calculator.  A field of a record read with .get() is a      *)
(* Python value [t, s, n]: None, a str (its characters in s) or an int      *)
(* (in n): a document may hold a day count as a string or as a number.      *)

PyNone == [t |-> "none", s |-> <<>>, n |-> 0]
PyStr(chars) == [t |-> "str", s |-> chars, n |-> 0]
PyInt(n) == [t |-> "int", s |-> <<>>, n |-> n]

\* bool(v): None, "" and 0 are false
truthy(v) ==
    CASE v.t = "none" -> FALSE
      [] v.t = "str" -> v.s # <<>>
      [] OTHER -> v.n # 0

Digits == <<"0", "1", "2", "3", "4", "5", "6", "7", "8", "9">>
IsDigit(ch) == \E i \in 1..10 : Digits[i] = ch
DigitVal(ch) == (CHOOSE i \in 1..10 : Digits[i] = ch) - 1
AllDigits(s) == s # <<>> /\ \A i \in 1..Len(s) : IsDigit(s[i])

RECURSIVE DigitsValue(_)
DigitsValue(s) ==
    IF s = <<>> THEN 0
    ELSE 10 * DigitsValue(SubSeq(s, 1, Len(s) - 1)) + DigitVal(s[Len(s)])

\* str(n) for n >= 0
RECURSIVE Decimal(_)
Decimal(n) ==
    IF n < 10 THEN <<Digits[n + 1]>> ELSE Decimal(n \div 10) \o <<Digits[(n % 10) + 1]>>

Raised == [ok |-> FALSE, n |-> 0]
Value(n) == [ok |-> TRUE, n |-> n]

\* int(v): an int as it is; a str stripped, with an optional sign and then
\* digits only; anything else raises
py_int(v) ==
    CASE v.t = "int" -> Value(v.n)
      [] v.t = "none" -> Raised
      [] OTHER ->
           LET s == strip_chars(v.s)
               signed == s # <<>> /\ Head(s) \in {"-", "+"}
               body == IF signed THEN Tail(s) ELSE s
           IN  IF AllDigits(body)
               THEN Value(IF signed /\ Head(s) = "-" THEN 0 - DigitsValue(body)
                          ELSE DigitsValue(body))
               ELSE Raised

IsLeap(y) == (y % 4 = 0 /\ y % 100 # 0) \/ y % 400 = 0

DaysInMonth(y, m) ==
    CASE m \in {4, 6, 9, 11} -> 30
      [] m = 2 -> IF IsLeap(y) THEN 29 ELSE 28
      [] OTHER -> 31

RECURSIVE DaysBeforeMonth(_, _)
DaysBeforeMonth(y, m) ==
    IF m = 1 THEN 0 ELSE DaysBeforeMonth(y, m - 1) + DaysInMonth(y, m - 1)

\* datetime.date(y, m, d).toordinal()
ToOrdinal(y, m, d) ==
    LET p == y - 1
    IN  p * 365 + (p \div 4) - (p \div 100) + (p \div 400) + DaysBeforeMonth(y, m) + d

\* the positions of "-" in a text
Dashes(s) == {i \in 1..Len(s) : s[i] = "-"}

\* datetime.datetime.strptime(v, "%Y-%m-%d").date().toordinal(): four digits,
\* "-", a month of one or two digits, "-", a day of one or two digits, naming
\* a day of the calendar; anything else, a value that is no str included, raises
strptime(v) ==
    IF v.t # "str" THEN Raised
    ELSE
    LET s == v.s
        j == IF \E i \in Dashes(s) : i > 5
             THEN CHOOSE i \in Dashes(s) : i > 5 /\ \A k \in Dashes(s) : k > 5 => i <= k
             ELSE 0
    IN  IF Len(s) < 8 \/ s[5] # "-" \/ j = 0 \/ Cardinality(Dashes(s)) # 2
        THEN Raised
        ELSE LET ys == SubSeq(s, 1, 4)
                 ms == SubSeq(s, 6, j - 1)
                 ds == SubSeq(s, j + 1, Len(s))
             IN  IF ~(AllDigits(ys) /\ AllDigits(ms) /\ AllDigits(ds)
                      /\ Len(ms) <= 2 /\ Len(ds) <= 2)
                 THEN Raised
                 ELSE LET y == DigitsValue(ys)
                          m == DigitsValue(ms)
                          d == DigitsValue(ds)
                      IN  IF y >= 1 /\ m \in 1..12 /\ d >= 1 /\ d <= DaysInMonth(y, m)
                          THEN Value(ToOrdinal(y, m, d))
                          ELSE Raised

\* variant: a record without a status is taken as closed
StatusOf_absent_closed(comp_data) ==
    IF comp_data.status = None THEN "closed" ELSE comp_data.status[1]

\* comp_data.get("status", "open")
StatusOf(comp_data) == IF comp_data.status = None THEN "open" ELSE comp_data.status[1]

NA == [text |-> "N/A", n |-> 0]

Abs(n) == IF n < 0 THEN 0 - n ELSE n

\* variant: a deadline that falls today is already rendered as expired
calculate_days_left_expired_today(comp_data, td) ==
    LET start == comp_data.start_date
        dl_days == comp_data.deadline_days
    IN  IF ~truthy(start) \/ ~truthy(dl_days) \/ StatusOf(comp_data) = "closed"
        THEN NA
        ELSE LET start_date == strptime(start)
                 days_passed == td - start_date.n
                 dl == py_int(dl_days)
                 days_left == dl.n - days_passed
             IN  IF ~start_date.ok \/ ~dl.ok THEN NA
                 ELSE IF days_left <= 0 THEN [text |-> "Lejart", n |-> Abs(days_left)]
                 ELSE [text |-> "nap", n |-> days_left]

\* MainWindow.calculate_days_left with date.today() = td, the text it returns
\* as [text, n]: "N/A", "Lejart (n napja)" or "n nap"
calculate_days_left(comp_data, td) ==
    LET start == comp_data.start_date
        dl_days == comp_data.deadline_days
    IN  IF ~truthy(start) \/ ~truthy(dl_days) \/ StatusOf(comp_data) = "closed"
        THEN NA
        ELSE LET start_date == strptime(start)
                 days_passed == td - start_date.n
                 dl == py_int(dl_days)
                 days_left == dl.n - days_passed
             IN  IF ~start_date.ok \/ ~dl.ok THEN NA
                 ELSE IF days_left < 0 THEN [text |-> "Lejart", n |-> Abs(days_left)]
                 ELSE [text |-> "nap", n |-> days_left]

\* variant: the deadline test of get_stats without its status test
stats_overdue_any_status(comp_data, td) ==
    LET start == comp_data.start_date
        dl_days == comp_data.deadline_days
    IN  IF truthy(start) /\ truthy(dl_days)
        THEN LET start_date == strptime(start)
                 days_passed == td - start_date.n
                 dl == py_int(dl_days)
                 days_left == dl.n - days_passed
             IN  start_date.ok /\ dl.ok /\ days_left < 0
        ELSE FALSE

\* DataManager.get_stats: whether the record adds one to stats["overdue"]
stats_overdue(comp_data, td) ==
    LET start == comp_data.start_date
        dl_days == comp_data.deadline_days
    IN  IF truthy(start) /\ truthy(dl_days) /\ StatusOf(comp_data) = "open"
        THEN LET start_date == strptime(start)
                 days_passed == td - start_date.n
                 dl == py_int(dl_days)
                 days_left == dl.n - days_passed
             IN  start_date.ok /\ dl.ok /\ days_left < 0
        ELSE FALSE

\* MainWindow.is_manufacturer_response_overdue with date.today() = td
is_manufacturer_response_overdue(comp_data, td) ==
    LET man_sent == comp_data.manufacturer_sent_date
        man_dl == comp_data.manufacturer_deadline_days
        man_resp == comp_data.manufacturer_response
    IN  IF ~truthy(man_sent) \/ ~truthy(man_dl) THEN FALSE
        ELSE IF Truthy(man_resp) THEN FALSE
        ELSE LET man_sent_date == strptime(man_sent)
                 days_passed == td - man_sent_date.n
                 dl == py_int(man_dl)
             IN  man_sent_date.ok /\ dl.ok /\ days_passed > dl.n

\* The values a date field and a day-count field of a document may hold.
Chars(y, m, d) == y \o <<"-">> \o m \o <<"-">> \o d
FirstDate == Chars(<<"2", "0", "2", "4">>, <<"0", "2">>, <<"2", "8">>)
DateValues ==
    { PyNone, PyStr(<<>>), PyStr(FirstDate),
      PyStr(Chars(<<"2", "0", "2", "4">>, <<"0", "2">>, <<"3", "0">>)) }
DayCountValues ==
    { PyNone, PyStr(<<>>), PyStr(<<"x">>) }
      \cup { PyStr(Decimal(n)) : n \in 0..MaxDays }
      \cup { PyInt(n) : n \in 0..MaxDays }
StatusValues == { None, Some("open"), Some("closed") }
ResponseValues == { None, Some(""), Some("ok") }

\* records that vary the complaint's own deadline, and records that vary the
\* manufacturer's
OwnRecords ==
    [ status : StatusValues, start_date : DateValues, deadline_days : DayCountValues,
      manufacturer_sent_date : {PyStr(FirstDate)},
      manufacturer_deadline_days : {PyStr(Decimal(MaxDays))},
      manufacturer_response : {Some("")} ]
ManufacturerRecords ==
    [ status : StatusValues, start_date : {PyStr(FirstDate)},
      deadline_days : {PyStr(Decimal(MaxDays))},
      manufacturer_sent_date : DateValues,
      manufacturer_deadline_days : DayCountValues,
      manufacturer_response : ResponseValues ]

\* date.today() on the day before the first date
FirstDay == strptime(PyStr(FirstDate)).n - 1

InitCalc ==
    /\ cd \in OwnRecords \cup ManufacturerRecords
    /\ today = FirstDay
    /\ shown = None
    /\ complaints = <<>>
    /\ disk = Absent
    /\ files = {}
    /\ pc = "main"
    /\ win = None
    /\ last = [op |-> "load_complaints", msg |-> ""]
    /\ sv = [old |-> Absent, new |-> Absent]

\* the days left as calculate_days_left computes them before it looks at the
\* status and before it formats them: [ok, n], not ok when start_date or
\* deadline_days is false or does not parse
own_days_left(comp_data, td) ==
    LET start == comp_data.start_date
        dl_days == comp_data.deadline_days
        start_date == strptime(start)
        dl == py_int(dl_days)
    IN  IF truthy(start) /\ truthy(dl_days) /\ start_date.ok /\ dl.ok
        THEN Value(dl.n - (td - start_date.n))
        ELSE Raised

\* export_to_csv: the "Hatralevo napok" cell of the record's row, "N/A" or the
\* number days_left
csv_days_left(comp_data, td) ==
    LET start == comp_data.start_date
        dl_days == comp_data.deadline_days
    IN  IF truthy(start) /\ truthy(dl_days)
        THEN LET start_date == strptime(start)
                 dl == py_int(dl_days)
                 days_passed == td - start_date.n
             IN  IF start_date.ok /\ dl.ok
                 THEN [text |-> "int", n |-> dl.n - days_passed]
                 ELSE NA
        ELSE NA

\* check_deadlines warns of an own deadline at most this many days away
WarnDays == 5

\* check_deadlines: the warnings that name the record, in the order appended
check_deadlines(comp_data, td) ==
    LET start == comp_data.start_date
        dl_days == comp_data.deadline_days
        start_date == strptime(start)
        dl == py_int(dl_days)
        days_left == dl.n - (td - start_date.n)
        own == IF truthy(start) /\ truthy(dl_days) /\ start_date.ok /\ dl.ok
                  /\ days_left <= WarnDays
               THEN << [kind |-> "Sajat hatarido", n |-> days_left] >>
               ELSE << >>
        man_sent == comp_data.manufacturer_sent_date
        man_dl == comp_data.manufacturer_deadline_days
        man_resp == comp_data.manufacturer_response
        man_sent_date == strptime(man_sent)
        mdl == py_int(man_dl)
        man_days_left == mdl.n - (td - man_sent_date.n)
        man == IF truthy(man_sent) /\ truthy(man_dl) /\ ~Truthy(man_resp)
                  /\ man_sent_date.ok /\ mdl.ok /\ man_days_left < 0
               THEN << [kind |-> "Gyartoi valasz kesik", n |-> Abs(man_days_left)] >>
               ELSE << >>
    IN  own \o man

\* refresh_tree: the status cell of the record's row, the status and whether
\* " [Gyartoi valasz kesik]" is appended to it
status_text(comp_data, td) ==
    [status |-> StatusOf(comp_data),
     late |-> is_manufacturer_response_overdue(comp_data, td)]

\* check_deadlines, refresh_tree, get_stats and export_to_csv computing the
\* record's deadlines for today
Calculate ==
    /\ shown' = Some([days_left |-> calculate_days_left(cd, today),
                      overdue |-> stats_overdue(cd, today),
                      manufacturer_overdue |-> is_manufacturer_response_overdue(cd, today),
                      status_text |-> status_text(cd, today),
                      warnings |-> check_deadlines(cd, today),
                      csv_days_left |-> csv_days_left(cd, today)])
    /\ UNCHANGED <<cd, today, storeVars>>

\* the calendar moves on to the next day
NextDay ==
    /\ today < FirstDay + 1 + MaxDays + MaxAhead
    /\ today' = today + 1
    /\ shown' = None
    /\ UNCHANGED <<cd, storeVars>>

NextCalc == Calculate \/ NextDay

SpecCalc == InitCalc /\ [][NextCalc]_vars

-----------------------------------------------------------------------------
(* Claims about the deadline calculator, under SpecCalc *)

\* a non-negative whole day count given as a decimal string or as a number
WholeDays(v) ==
    \/ v.t = "int" /\ v.n >= 0
    \/ v.t = "str" /\ AllDigits(v.s)

\* C9: for every parsable start_date, every today and every non-negative whole
\* deadline_days given as a decimal string or as a number (0 included), the
\* days left are available and equal deadline_days minus the days from
\* start_date to today, and the record is counted overdue exactly when that
\* value is negative and the status is "open"; the days left are unavailable
\* only when start_date or deadline_days is missing or unparsable.
C9_OwnDaysLeft ==
    shown # None =>
      LET r == shown[1]
          start == strptime(cd.start_date)
          dl == py_int(cd.deadline_days)
          left == dl.n - (today - start.n)
      IN  /\ (start.ok /\ WholeDays(cd.deadline_days)) =>
                /\ r.overdue <=> (left < 0 /\ StatusOf(cd) = "open")
                /\ StatusOf(cd) = "open" =>
                     /\ r.days_left # NA
                     /\ r.days_left.n = Abs(left)
                     /\ (r.days_left.text = "Lejart") <=> (left < 0)
          /\ (r.days_left = NA /\ StatusOf(cd) = "open") => (~start.ok \/ ~dl.ok)

\* C10: the manufacturer's response is overdue exactly when the sent date and
\* the deadline are both present (the deadline a decimal string or a number,
\* 0 included), the response is empty or absent, and the days since the sent
\* date exceed the deadline; at exactly the deadline it is not overdue.
C10_ManufacturerOverdue ==
    shown # None =>
      LET sent == strptime(cd.manufacturer_sent_date)
          dl == py_int(cd.manufacturer_deadline_days)
      IN  shown[1].manufacturer_overdue <=>
            /\ sent.ok
            /\ dl.ok
            /\ ~Truthy(cd.manufacturer_response)
            /\ today - sent.n > dl.n

\* the record and the day of the scenario: start_date 2024-01-01,
\* deadline_days 30, open, on 2024-02-05
ScenarioRecord(dl_days) ==
    [ status |-> Some("open"),
      start_date |-> PyStr(Chars(<<"2", "0", "2", "4">>, <<"0", "1">>, <<"0", "1">>)),
      deadline_days |-> dl_days,
      manufacturer_sent_date |-> PyStr(<<>>),
      manufacturer_deadline_days |-> PyStr(<<"1", "5">>),
      manufacturer_response |-> Some("") ]
ScenarioDay == ToOrdinal(2024, 2, 5)

C13_ExporterClosedUnavailable ==
    (shown # None /\ StatusOf(cd) = "closed") => shown[1].csv_days_left = NA

\* C14: every record reported as overdue is open: no closed record is marked
\* "[Gyartoi valasz kesik]" in the list view or named in a startup deadline
\* warning, whatever its dates and day counts.
C14_OverdueReportedOnlyIfOpen ==
    (shown # None /\ (shown[1].status_text.late \/ shown[1].warnings # << >>))
      => StatusOf(cd) = "open"

-----------------------------------------------------------------------------
(* Claims about the fields the forms write, under Spec *)

\* C15: in every reachable state, after any sequence of create, edit-save and
\* close operations, the status of every record is "open" or "closed".
C15_StatusOpenOrClosed ==
    \A i \in 1..Len(complaints) : complaints[i].data.status \in {"open", "closed"}

\* C16: in every reachable state, after any sequence of create and edit-save
\* operations with arbitrary user input, the deadline_days of every record,
\* when present, is a non-negative whole number (manufacturer_deadline_days
\* is written by the same statements from an entry of the same kind).
C16_DeadlineDaysWhole ==
    \A i \in 1..Len(complaints) :
        LET dl_days == complaints[i].data.deadline_days
        IN  dl_days = << >> \/ AllDigits(dl_days)

-----------------------------------------------------------------------------
(* The aggregator DataManager.get_stats and the search                      *)
(* ComplaintApp.advanced_search over a collection: a sequence of [id, data] *)
(* in iteration order, the ids and the texts searched held as characters.   *)

\* comp_data.get(key, ""): a text of the record, "" when the key is missing
TextOf(opt) == IF opt = None THEN << >> ELSE opt[1]

\* get_stats: comp_data.get("brand", "Ismeretlen")
BrandOf(comp_data) == IF comp_data.brand = None THEN "Ismeretlen" ELSE comp_data.brand[1]

\* variant: a brand met for the first time is put in front
count_brand_in_front(brands, brand) ==
    IF \E j \in 1..Len(brands) : brands[j].brand = brand
    THEN [j \in 1..Len(brands) |->
            IF brands[j].brand = brand
            THEN [brands[j] EXCEPT !.count = @ + 1] ELSE brands[j]]
    ELSE <<[brand |-> brand, count |-> 1]>> \o brands

\* get_stats: stats["brands"][brand] += 1, or = 1 for a brand not yet a key;
\* the dict as the sequence of its items in insertion order
count_brand(brands, brand) ==
    IF \E j \in 1..Len(brands) : brands[j].brand = brand
    THEN [j \in 1..Len(brands) |->
            IF brands[j].brand = brand
            THEN [brands[j] EXCEPT !.count = @ + 1] ELSE brands[j]]
    ELSE Append(brands, [brand |-> brand, count |-> 1])

\* variant: the deadline test of get_stats without its try
overdue_check_no_try(comp_data, td) ==
    LET start == comp_data.start_date
        dl_days == comp_data.deadline_days
    IN  [raised |-> /\ truthy(start) /\ truthy(dl_days) /\ StatusOf(comp_data) = "open"
                    /\ (~strptime(start).ok \/ ~py_int(dl_days).ok),
         overdue |-> stats_overdue(comp_data, td)]

\* get_stats: the deadline test of one record; what it raises is caught
overdue_check(comp_data, td) ==
    [raised |-> FALSE, overdue |-> stats_overdue(comp_data, td)]

\* variant: a record counts as pending whatever its status
stats_pending_any_status(comp_data) ==
    /\ truthy(comp_data.manufacturer_sent_date)
    /\ ~Truthy(comp_data.manufacturer_response)

\* get_stats: man_sent and not man_resp and status == "open"
stats_pending(comp_data) ==
    /\ truthy(comp_data.manufacturer_sent_date)
    /\ ~Truthy(comp_data.manufacturer_response)
    /\ StatusOf(comp_data) = "open"

\* get_stats lists at most this many records as recent
MaxRecent == 5

\* get_stats: one pass of the loop body over the record e
stats_step(stats, e, td) ==
    LET comp_data == e.data
        status == StatusOf(comp_data)
        brand == BrandOf(comp_data)
        dl == overdue_check(comp_data, td)
    IN  IF stats.raised \/ dl.raised
        THEN [stats EXCEPT !.raised = TRUE]
        ELSE [stats EXCEPT
                !.open = IF status = "open" THEN @ + 1 ELSE @,
                !.closed = IF status = "open" THEN @ ELSE @ + 1,
                !.brands = count_brand(@, brand),
                !.overdue = IF dl.overdue THEN @ + 1 ELSE @,
                !.pending_manufacturer = IF stats_pending(comp_data) THEN @ + 1 ELSE @,
                !.recent = IF Len(@) < MaxRecent
                           THEN Append(@, [comp_no |-> e.id, customer |-> TextOf(comp_data.customer),
                                           status |-> status, brand |-> brand])
                           ELSE @]

RECURSIVE stats_loop(_, _, _)
stats_loop(stats, c, td) ==
    IF c = << >> THEN stats ELSE stats_loop(stats_step(stats, Head(c), td), Tail(c), td)

\* DataManager.get_stats with date.today() = td; raised: an exception left it
get_stats(c, td) ==
    stats_loop([total |-> Len(c), open |-> 0, closed |-> 0, overdue |-> 0,
                pending_manufacturer |-> 0, brands |-> << >>, recent |-> << >>,
                raised |-> FALSE], c, td)

UpperCase == <<"A", "B", "C", "D", "E", "F", "G", "H", "I", "J", "K", "L", "M",
               "N", "O", "P", "Q", "R", "S", "T", "U", "V", "W", "X", "Y", "Z">>
LowerCase == <<"a", "b", "c", "d", "e", "f", "g", "h", "i", "j", "k", "l", "m",
               "n", "o", "p", "q", "r", "s", "t", "u", "v", "w", "x", "y", "z">>

\* str.lower() on a text held as characters
lower_chars(text) ==
    [i \in 1..Len(text) |->
        IF \E j \in 1..26 : UpperCase[j] = text[i]
        THEN LowerCase[CHOOSE j \in 1..26 : UpperCase[j] = text[i]]
        ELSE text[i]]

\* needle in hay, for str
Contains(hay, needle) ==
    \E i \in 0..(Len(hay) - Len(needle)) : SubSeq(hay, i + 1, i + Len(needle)) = needle

\* advanced_search: the test behind criteria["overdue"]
search_overdue(comp_data, td) ==
    LET start == comp_data.start_date
        dl_days == comp_data.deadline_days
    IN  IF truthy(start) /\ truthy(dl_days)
        THEN LET start_date == strptime(start)
                 dl == py_int(dl_days)
                 days_left == dl.n - (td - start_date.n)
             IN  start_date.ok /\ dl.ok /\ days_left < 0 /\ StatusOf(comp_data) = "open"
        ELSE FALSE

\* advanced_search: the test behind criteria["pending"]
search_pending(comp_data) ==
    ~(\/ ~truthy(comp_data.manufacturer_sent_date)
      \/ Truthy(comp_data.manufacturer_response)
      \/ StatusOf(comp_data) # "open")

\* variant: a record dated on a bound is left out
search_in_range_exclusive(comp_data, from_date, to_date) ==
    LET start == comp_data.start_date
        start_date == strptime(start)
        from == strptime(PyStr(from_date))
        to == strptime(PyStr(to_date))
    IN  IF ~truthy(start) \/ ~start_date.ok THEN FALSE
        ELSE /\ ~(from_date # << >> /\ from.ok /\ start_date.n <= from.n)
             /\ ~(to_date # << >> /\ to.ok /\ start_date.n >= to.n)

\* advanced_search: the test behind criteria["from_date"] and ["to_date"]; a
\* bound that does not parse is passed over
search_in_range(comp_data, from_date, to_date) ==
    LET start == comp_data.start_date
        start_date == strptime(start)
        from == strptime(PyStr(from_date))
        to == strptime(PyStr(to_date))
    IN  IF ~truthy(start) \/ ~start_date.ok THEN FALSE
        ELSE /\ ~(from_date # << >> /\ from.ok /\ start_date.n < from.n)
             /\ ~(to_date # << >> /\ to.ok /\ start_date.n > to.n)

\* variant: the date range is tested whether or not a bound is given
search_passes_range_always(e, criteria, td) ==
    LET comp_data == e.data IN
    /\ ~(criteria.rekl_szam # << >>
         /\ ~Contains(lower_chars(e.id), lower_chars(criteria.rekl_szam)))
    /\ ~(criteria.customer # << >>
         /\ ~Contains(lower_chars(TextOf(comp_data.customer)), lower_chars(criteria.customer)))
    /\ ~(criteria.product # << >>
         /\ ~Contains(lower_chars(TextOf(comp_data.product_name)), lower_chars(criteria.product)))
    /\ ~(criteria.brand # ""
         /\ criteria.brand # (IF comp_data.brand = None THEN "" ELSE comp_data.brand[1]))
    /\ ~(criteria.status # "" /\ criteria.status # StatusOf(comp_data))
    /\ criteria.overdue => search_overdue(comp_data, td)
    /\ criteria.pending => search_pending(comp_data)
    /\ search_in_range(comp_data, criteria.from_date, criteria.to_date)

\* variant: a brand given makes the search pass over the status given
search_passes_brand_alone(e, criteria, td) ==
    LET comp_data == e.data IN
    /\ ~(criteria.rekl_szam # << >>
         /\ ~Contains(lower_chars(e.id), lower_chars(criteria.rekl_szam)))
    /\ ~(criteria.customer # << >>
         /\ ~Contains(lower_chars(TextOf(comp_data.customer)), lower_chars(criteria.customer)))
    /\ ~(criteria.product # << >>
         /\ ~Contains(lower_chars(TextOf(comp_data.product_name)), lower_chars(criteria.product)))
    /\ ~(criteria.brand # ""
         /\ criteria.brand # (IF comp_data.brand = None THEN "" ELSE comp_data.brand[1]))
    /\ ~(criteria.brand = "" /\ criteria.status # "" /\ criteria.status # StatusOf(comp_data))
    /\ criteria.overdue => search_overdue(comp_data, td)
    /\ criteria.pending => search_pending(comp_data)
    /\ (criteria.from_date # << >> \/ criteria.to_date # << >>)
         => search_in_range(comp_data, criteria.from_date, criteria.to_date)

\* advanced_search: whether the loop body reaches results[comp_no] = comp_data
search_passes(e, criteria, td) ==
    LET comp_data == e.data IN
    /\ ~(criteria.rekl_szam # << >>
         /\ ~Contains(lower_chars(e.id), lower_chars(criteria.rekl_szam)))
    /\ ~(criteria.customer # << >>
         /\ ~Contains(lower_chars(TextOf(comp_data.customer)), lower_chars(criteria.customer)))
    /\ ~(criteria.product # << >>
         /\ ~Contains(lower_chars(TextOf(comp_data.product_name)), lower_chars(criteria.product)))
    /\ ~(criteria.brand # ""
         /\ criteria.brand # (IF comp_data.brand = None THEN "" ELSE comp_data.brand[1]))
    /\ ~(criteria.status # "" /\ criteria.status # StatusOf(comp_data))
    /\ criteria.overdue => search_overdue(comp_data, td)
    /\ criteria.pending => search_pending(comp_data)
    /\ (criteria.from_date # << >> \/ criteria.to_date # << >>)
         => search_in_range(comp_data, criteria.from_date, criteria.to_date)

\* ComplaintApp.advanced_search with date.today() = td: the dict results as
\* the sequence of its items in insertion order
RECURSIVE advanced_search(_, _, _)
advanced_search(c, criteria, td) ==
    IF c = << >> THEN << >>
    ELSE (IF search_passes(Head(c), criteria, td) THEN <<Head(c)>> ELSE << >>)
           \o advanced_search(Tail(c), criteria, td)

\* The records and collections handed to the aggregator and the search.
BaseRecord ==
    [ customer |-> Some(<<"K", "i", "s", "s">>),
      product_name |-> Some(<<"M", "a", "t", "r", "a", "c">>),
      brand |-> Some("Elitestrom"),
      status |-> Some("open"),
      start_date |-> PyStr(FirstDate),
      deadline_days |-> PyStr(Decimal(0)),
      manufacturer_sent_date |-> PyStr(<< >>),
      manufacturer_deadline_days |-> PyStr(Decimal(MaxDays)),
      manufacturer_response |-> Some("") ]

\* the base record with every status, sent or not sent to the manufacturer,
\* answered or not
PendingRecords ==
    { [BaseRecord EXCEPT !.status = st,
                         !.manufacturer_sent_date = m[1],
                         !.manufacturer_response = m[2]] :
        st \in StatusValues,
        m \in { <<PyStr(<< >>), Some("")>>, <<PyStr(FirstDate), Some("")>>,
                <<PyStr(FirstDate), Some("ok")>>, <<PyStr(FirstDate), None>> } }
      \cup { [BaseRecord EXCEPT !.manufacturer_sent_date = PyStr(FirstDate),
                                !.manufacturer_deadline_days = PyStr(Decimal(0))] }

BrandRecords ==
    { [BaseRecord EXCEPT !.brand = Some("Tempur"), !.status = Some("closed")],
      [BaseRecord EXCEPT !.brand = None, !.customer = None] }

\* records whose own dates are missing, unparsable or not yet due
DateRecords ==
    { [BaseRecord EXCEPT !.start_date = PyNone],
      [BaseRecord EXCEPT !.start_date =
          PyStr(Chars(<<"2", "0", "2", "4">>, <<"0", "2">>, <<"3", "0">>))],
      [BaseRecord EXCEPT !.deadline_days = PyStr(<<"x">>)],
      [BaseRecord EXCEPT !.deadline_days = PyInt(0)],
      [BaseRecord EXCEPT !.deadline_days = PyStr(Decimal(MaxDays))] }

StatRecords == PendingRecords \cup BrandRecords \cup DateRecords

StatIds == << <<"A", "1">>, <<"B", "2">>, <<"C", "3">>, <<"D", "4">> >>

StatCollections ==
    UNION { { [i \in 1..k |-> [id |-> StatIds[i], data |-> f[i]]] :
                f \in [1..k -> StatRecords] } : k \in 0..MaxRecords }

\* what perform_search collects from the search window
NoCriteria ==
    [ rekl_szam |-> << >>, customer |-> << >>, product |-> << >>, brand |-> "",
      status |-> "", from_date |-> << >>, to_date |-> << >>,
      overdue |-> FALSE, pending |-> FALSE ]

SearchCriteria ==
    { NoCriteria,
      [NoCriteria EXCEPT !.pending = TRUE],
      [NoCriteria EXCEPT !.overdue = TRUE] }

NoStats == get_stats(<< >>, 0)

InitStats ==
    /\ complaints \in StatCollections
    /\ today \in {FirstDay, FirstDay + 2}
    /\ shown = None
    /\ cd = NoCalc
    /\ disk = Absent
    /\ files = {}
    /\ pc = "main"
    /\ win = None
    /\ last = [op |-> "load_complaints", msg |-> ""]
    /\ sv = [old |-> Absent, new |-> Absent]

\* the dashboard asks for the statistics
GetStats ==
    /\ shown' = Some([op |-> "get_stats", criteria |-> NoCriteria,
                      stats |-> get_stats(complaints, today), results |-> << >>])
    /\ UNCHANGED <<cd, today, storeVars>>

\* perform_search hands the criteria of the search window to advanced_search
AdvancedSearch ==
    /\ \E criteria \in SearchCriteria :
         shown' = Some([op |-> "advanced_search", criteria |-> criteria,
                        stats |-> NoStats,
                        results |-> advanced_search(complaints, criteria, today)])
    /\ UNCHANGED <<cd, today, storeVars>>

NextStats == GetStats \/ AdvancedSearch

SpecStats == InitStats /\ [][NextStats]_vars

-----------------------------------------------------------------------------
(* Claims about the aggregator and the search, under SpecStats *)

Stats == shown[1].stats
Computed(op) == shown # None /\ shown[1].op = op
Count(P(_)) == Cardinality({i \in 1..Len(complaints) : P(complaints[i].data)})

\* sent to the manufacturer, not answered, and open
ManufacturerPending(d) ==
    /\ d.manufacturer_sent_date \notin {PyNone, PyStr(<< >>)}
    /\ d.manufacturer_response \in {None, Some("")}
    /\ d.status \in {None, Some("open")}
PendingEntry(e) == ManufacturerPending(e.data)

\* C11: a record is manufacturer-pending iff its manufacturer_sent_date is
\* present, its manufacturer_response is empty or absent and it is open,
\* whether or not the manufacturer's deadline has passed;
\* pending_manufacturer of get_stats is the number of such records and a
\* search with only pending set returns exactly those records.
C11_PendingCountAndSearch ==
    /\ Computed("get_stats") => Stats.pending_manufacturer = Count(ManufacturerPending)
    /\ (Computed("advanced_search") /\ shown[1].criteria = [NoCriteria EXCEPT !.pending = TRUE])
         => shown[1].results = SelectSeq(complaints, PendingEntry)

\* two pending records are counted, one of them past the manufacturer's
\* deadline and one not
C11_Witness ==
    /\ Computed("get_stats")
    /\ Len(complaints) = 2
    /\ Stats.pending_manufacturer = 2
    /\ is_manufacturer_response_overdue(complaints[1].data, today)
    /\ ~is_manufacturer_response_overdue(complaints[2].data, today)

OpenRecord(d) == d.status \in {None, Some("open")}

\* the collection of the scenario: "Elitestrom" open and "Tempur" closed
ScenarioCollection ==
    << [id |-> StatIds[1], data |-> BaseRecord],
       [id |-> StatIds[2],
        data |-> [BaseRecord EXCEPT !.brand = Some("Tempur"), !.status = Some("closed")]] >>

\* C17: for every collection get_stats returns total = number of records and
\* open + closed = total, a record with no status counting as open; the two
\* records "Elitestrom" open and "Tempur" closed give total 2, open 1,
\* closed 1.
C17_TotalOpenClosed ==
    /\ Computed("get_stats") =>
         /\ Stats.total = Len(complaints)
         /\ Stats.open + Stats.closed = Stats.total
         /\ Stats.open = Count(OpenRecord)
    /\ LET st == get_stats(ScenarioCollection, FirstDay)
       IN  st.total = 2 /\ st.open = 1 /\ st.closed = 1

\* a record without status and a closed record have been counted
C17_Witness ==
    /\ Computed("get_stats")
    /\ Len(complaints) = 2
    /\ complaints[1].data.status = None
    /\ complaints[2].data.status = Some("closed")
    /\ Stats.open = 1 /\ Stats.closed = 1

OwnIsOverdue(d) ==
    LET v == own_days_left(d, today)
    IN  v.ok /\ v.n < 0 /\ StatusOf(d) = "open"

RECURSIVE SumCounts(_)
SumCounts(brands) ==
    IF brands = << >> THEN 0 ELSE Head(brands).count + SumCounts(Tail(brands))

FirstMet(brand) ==
    CHOOSE i \in 1..Len(complaints) :
        /\ BrandOf(complaints[i].data) = brand
        /\ \A j \in 1..(i - 1) : BrandOf(complaints[j].data) # brand

\* C19: for every collection the brand histogram maps each brand occurring in
\* the collection to the number of records with that brand, its counts sum to
\* total, and its keys are in the order the brands are first met in
\* collection order.
C19_BrandHistogram ==
    Computed("get_stats") =>
      LET brands == Stats.brands IN
      /\ {brands[j].brand : j \in 1..Len(brands)}
           = {BrandOf(complaints[i].data) : i \in 1..Len(complaints)}
      /\ \A j \in 1..Len(brands) :
           brands[j].count =
             Cardinality({i \in 1..Len(complaints) : BrandOf(complaints[i].data) = brands[j].brand})
      /\ SumCounts(brands) = Stats.total
      /\ \A j, k \in 1..Len(brands) :
           j < k => FirstMet(brands[j].brand) < FirstMet(brands[k].brand)

\* "Tempur" met before "Elitestrom"
C19_Witness ==
    /\ Computed("get_stats")
    /\ Stats.brands = << [brand |-> "Tempur", count |-> 1], [brand |-> "Elitestrom", count |-> 1] >>

\* a record whose start_date or deadline_days is missing or does not parse
BadDates(d) == ~strptime(d.start_date).ok \/ ~py_int(d.deadline_days).ok

\* the collection with valid, expired dates in record i
WithValidDates(i) ==
    [complaints EXCEPT ![i].data.start_date = PyStr(FirstDate),
                       ![i].data.deadline_days = PyStr(Decimal(0))]

\* C20: get_stats never fails because of one bad record: for every collection
\* with a record whose start_date or deadline_days is missing or unparsable
\* it completes, counts that record as not overdue, and what the other
\* records add to overdue, pending, open and closed is what they add when the
\* bad record has valid dates.
C20_BadRecordDoesNotBlock ==
    Computed("get_stats") =>
      /\ ~Stats.raised
      /\ \A i \in 1..Len(complaints) :
           BadDates(complaints[i].data) =>
             LET valid == WithValidDates(i)
                 st == get_stats(valid, today)
                 one == IF stats_overdue(valid[i].data, today) THEN 1 ELSE 0
             IN  /\ ~stats_overdue(complaints[i].data, today)
                 /\ Stats.overdue = st.overdue - one
                 /\ Stats.pending_manufacturer = st.pending_manufacturer
                 /\ Stats.open = st.open
                 /\ Stats.closed = st.closed

\* a record with an unparsable date stands before an overdue record, which
\* is counted
C20_Witness ==
    /\ Computed("get_stats")
    /\ Len(complaints) = 2
    /\ StatusOf(complaints[1].data) = "open"
    /\ truthy(complaints[1].data.start_date)
    /\ ~strptime(complaints[1].data.start_date).ok
    /\ OwnIsOverdue(complaints[2].data)
    /\ Stats.overdue = 1

-----------------------------------------------------------------------------
(* The search window over collections whose records differ in every field   *)
(* the search reads.                                                        *)

DayBefore == Chars(<<"2", "0", "2", "4">>, <<"0", "2">>, <<"2", "7">>)
DayAfter == Chars(<<"2", "0", "2", "4">>, <<"0", "2">>, <<"2", "9">>)

SearchRecords ==
    { BaseRecord,
      [BaseRecord EXCEPT !.customer = Some(<<"N", "a", "g", "y">>),
                         !.brand = Some("Tempur"),
                         !.status = Some("closed"),
                         !.start_date = PyStr(DayBefore)],
      [BaseRecord EXCEPT !.product_name = Some(<<"P", "a", "r", "n", "a">>),
                         !.start_date = PyStr(DayAfter),
                         !.manufacturer_sent_date = PyStr(FirstDate)],
      [BaseRecord EXCEPT !.status = None, !.start_date = PyStr(<<"x">>)],
      [BaseRecord EXCEPT !.start_date = PyNone, !.brand = None],
      [BaseRecord EXCEPT !.status = Some("kesz")],
      [BaseRecord EXCEPT !.deadline_days = PyStr(Decimal(MaxDays)),
                         !.manufacturer_sent_date = PyStr(FirstDate),
                         !.manufacturer_response = Some("ok")] }

SearchCollections ==
    UNION { { [i \in 1..k |-> [id |-> StatIds[i], data |-> f[i]]] :
                f \in [1..k -> SearchRecords] } : k \in 0..MaxRecords }

\* one value typed or chosen per field of the search window
CriteriaFields ==
    { "rekl_szam", "customer", "product", "brand", "status",
      "from_date", "to_date", "overdue", "pending" }

FilledCriteria ==
    [ rekl_szam |-> <<"a">>, customer |-> <<"k", "I">>, product |-> <<"m", "a", "t">>,
      brand |-> "Elitestrom", status |-> "open",
      from_date |-> FirstDate, to_date |-> FirstDate,
      overdue |-> TRUE, pending |-> TRUE ]

\* the window with only the fields of the set fs filled
Filled(fs) ==
    [f \in CriteriaFields |-> IF f \in fs THEN FilledCriteria[f] ELSE NoCriteria[f]]

WindowCriteria ==
    { Filled(fs) : fs \in {x \in SUBSET CriteriaFields : Cardinality(x) <= 2} }
      \cup { [NoCriteria EXCEPT !.from_date = <<"x">>],
             [NoCriteria EXCEPT !.from_date = DayBefore, !.to_date = DayAfter] }

InitSearch ==
    /\ complaints \in SearchCollections
    /\ today \in {FirstDay, FirstDay + 2}
    /\ shown = None
    /\ cd = NoCalc
    /\ disk = Absent
    /\ files = {}
    /\ pc = "main"
    /\ win = None
    /\ last = [op |-> "load_complaints", msg |-> ""]
    /\ sv = [old |-> Absent, new |-> Absent]

\* perform_search with what the search window holds; the window is opened
\* from the list of all records
PerformSearch ==
    /\ shown = None
    /\ \E criteria \in WindowCriteria :
         shown' = Some([op |-> "advanced_search", criteria |-> criteria,
                        stats |-> NoStats,
                        results |-> advanced_search(complaints, criteria, today)])
    /\ UNCHANGED <<cd, today, storeVars>>

\* refresh_tree: the list shows all records again
ShowAll ==
    /\ shown # None
    /\ shown' = None
    /\ UNCHANGED <<cd, today, storeVars>>

NextSearch == GetStats \/ PerformSearch \/ ShowAll

SpecSearch == InitSearch /\ [][NextSearch]_vars

-----------------------------------------------------------------------------
(* Claims about the search, under SpecSearch *)

Searched == shown[1].criteria
Results == shown[1].results
SetFields == {f \in CriteriaFields : Searched[f] # NoCriteria[f]}

\* C23: a search in which every criterion is empty or false returns every
\* record of the collection, in collection order.
C23_EmptySearchReturnsAll ==
    (Computed("advanced_search") /\ Searched = NoCriteria) => Results = complaints

\* the empty search has returned two records, one of them without start_date
C23_Witness ==
    /\ Computed("advanced_search")
    /\ Searched = NoCriteria
    /\ Len(Results) = 2
    /\ Results[1].data.start_date = PyNone

\* C24: for every collection and every two search criteria, the result of the
\* search with both set is the intersection of the results of the two
\* single-criterion searches, in collection order.
C24_TwoCriteriaIntersect ==
    (Computed("advanced_search") /\ Cardinality(SetFields) = 2) =>
      LET Single(f) == advanced_search(complaints, [NoCriteria EXCEPT ![f] = Searched[f]], today)
          InBoth(e) == \A f \in SetFields : \E i \in 1..Len(Single(f)) : Single(f)[i] = e
      IN  Results = SelectSeq(complaints, InBoth)

\* brand and status were both set and only one of two records with that
\* brand has that status
C24_Witness ==
    /\ Computed("advanced_search")
    /\ SetFields = {"brand", "status"}
    /\ Len(complaints) = 2
    /\ \A i \in 1..2 : complaints[i].data.brand = Some(Searched.brand)
    /\ Results = << complaints[2] >>

RenderedExpired(d) == calculate_days_left(d, today).text = "Lejart"
RenderedExpiredEntry(e) == RenderedExpired(e.data)

\* C28: for every record the three own-overdue decisions agree: the list view
\* renders its deadline as "Lejart (...)" iff get_stats counts it as overdue
\* iff a search with only overdue set returns it.
C28_OverdueDecisionsAgree ==
    /\ Computed("get_stats") => Stats.overdue = Count(RenderedExpired)
    /\ (Computed("advanced_search") /\ SetFields = {"overdue"})
         => Results = SelectSeq(complaints, RenderedExpiredEntry)

-----------------------------------------------------------------------------
(* The calendar of the dashboard: current_year, current_month and the       *)
(* deadlines get_month_deadlines finds for that month.                      *)

\* datetime.date.fromordinal(o): its year, month and day
YearOf(o) ==
    CHOOSE y \in (o \div 366)..((o \div 365) + 1) :
        ToOrdinal(y, 1, 1) <= o /\ o < ToOrdinal(y + 1, 1, 1)
MonthOf(o) ==
    CHOOSE m \in 1..12 :
        /\ ToOrdinal(YearOf(o), m, 1) <= o
        /\ o < ToOrdinal(YearOf(o), m, 1) + DaysInMonth(YearOf(o), m)
DayOf(o) == o - ToOrdinal(YearOf(o), MonthOf(o), 1) + 1

\* deadlines[day].append((comp_no, desc)), after deadlines[day] = [] for a
\* day not yet a key; the dict as the sequence of its items
add_deadline(deadlines, day, entry) ==
    IF \E j \in 1..Len(deadlines) : deadlines[j].day = day
    THEN [j \in 1..Len(deadlines) |->
            IF deadlines[j].day = day
            THEN [deadlines[j] EXCEPT !.entries = Append(@, entry)] ELSE deadlines[j]]
    ELSE Append(deadlines, [day |-> day, entries |-> <<entry>>])

\* get_month_deadlines: the own deadline of the record e
own_deadline(deadlines, e, year, month) ==
    LET start == e.data.start_date
        dl_days == e.data.deadline_days
        start_date == strptime(start)
        days_passed == py_int(dl_days)
        deadline_date == start_date.n + days_passed.n
    IN  IF truthy(start) /\ truthy(dl_days) /\ start_date.ok /\ days_passed.ok
           /\ YearOf(deadline_date) = year /\ MonthOf(deadline_date) = month
        THEN add_deadline(deadlines, DayOf(deadline_date),
                          [comp_no |-> e.id, kind |-> "Sajat hatarido",
                           customer |-> TextOf(e.data.customer), brand |-> ""])
        ELSE deadlines

\* get_month_deadlines: the manufacturer's deadline of the record e
manufacturer_deadline(deadlines, e, year, month) ==
    LET man_sent == e.data.manufacturer_sent_date
        man_dl == e.data.manufacturer_deadline_days
        man_sent_date == strptime(man_sent)
        man_days == py_int(man_dl)
        man_deadline_date == man_sent_date.n + man_days.n
    IN  IF truthy(man_sent) /\ truthy(man_dl) /\ man_sent_date.ok /\ man_days.ok
           /\ YearOf(man_deadline_date) = year /\ MonthOf(man_deadline_date) = month
        THEN add_deadline(deadlines, DayOf(man_deadline_date),
                          [comp_no |-> e.id, kind |-> "Gyartoi hatarido",
                           customer |-> << >>,
                           brand |-> IF e.data.brand = None THEN "" ELSE e.data.brand[1]])
        ELSE deadlines

\* variant: the records are not asked for their status
month_step_any_status(deadlines, e, year, month) ==
    manufacturer_deadline(own_deadline(deadlines, e, year, month), e, year, month)

\* get_month_deadlines: one pass of the loop body over the record e
month_step(deadlines, e, year, month) ==
    IF StatusOf(e.data) # "open" THEN deadlines
    ELSE manufacturer_deadline(own_deadline(deadlines, e, year, month), e, year, month)

RECURSIVE month_loop(_, _, _, _)
month_loop(deadlines, c, year, month) ==
    IF c = << >> THEN deadlines
    ELSE month_loop(month_step(deadlines, Head(c), year, month), Tail(c), year, month)

\* ComplaintApp.get_month_deadlines
get_month_deadlines(c, year, month) == month_loop(<< >>, c, year, month)

\* variant: the year is not turned with the month
change_month_same_year(current_year, current_month, direction) ==
    LET month == current_month + direction
    IN  IF month > 12 THEN [current_year |-> current_year, current_month |-> 1]
        ELSE IF month < 1 THEN [current_year |-> current_year, current_month |-> 12]
        ELSE [current_year |-> current_year, current_month |-> month]

\* ComplaintApp.change_month: the new current_year and current_month
change_month(current_year, current_month, direction) ==
    LET month == current_month + direction
    IN  IF month > 12 THEN [current_year |-> current_year + 1, current_month |-> 1]
        ELSE IF month < 1 THEN [current_year |-> current_year - 1, current_month |-> 12]
        ELSE [current_year |-> current_year, current_month |-> month]

\* refresh_calendar: the page of the calendar for current_year, current_month
calendar_page(c, cal) ==
    [current_year |-> cal.current_year, current_month |-> cal.current_month,
     deadlines |-> get_month_deadlines(c, cal.current_year, cal.current_month)]

CalendarRecords ==
    { BaseRecord,
      [BaseRecord EXCEPT !.deadline_days = PyStr(Decimal(MaxDays))],
      [BaseRecord EXCEPT !.deadline_days = PyInt(0)],
      [BaseRecord EXCEPT !.deadline_days = PyStr(<<"x">>)],
      [BaseRecord EXCEPT !.status = None],
      [BaseRecord EXCEPT !.manufacturer_sent_date = PyStr(FirstDate)],
      [BaseRecord EXCEPT !.manufacturer_sent_date = PyStr(FirstDate),
                         !.manufacturer_deadline_days = PyStr(Decimal(0)),
                         !.manufacturer_response = Some("ok")],
      [BaseRecord EXCEPT !.manufacturer_sent_date = PyStr(FirstDate),
                         !.manufacturer_deadline_days = PyStr(Decimal(0)),
                         !.status = Some("closed")],
      [BaseRecord EXCEPT !.manufacturer_sent_date = PyStr(FirstDate),
                         !.manufacturer_deadline_days = PyInt(0)] }

CalendarCollections ==
    UNION { { [i \in 1..k |-> [id |-> StatIds[i], data |-> f[i]]] :
                f \in [1..k -> CalendarRecords] } : k \in 0..MaxRecords }

\* the dashboard opens on the month of today
InitCalendar ==
    /\ complaints \in CalendarCollections
    /\ today = FirstDay
    /\ shown = Some(calendar_page(complaints,
                       [current_year |-> YearOf(today), current_month |-> MonthOf(today)]))
    /\ cd = NoCalc
    /\ disk = Absent
    /\ files = {}
    /\ pc = "main"
    /\ win = None
    /\ last = [op |-> "load_complaints", msg |-> ""]
    /\ sv = [old |-> Absent, new |-> Absent]

\* the months between the month of today and the month shown
MonthsAway ==
    (shown[1].current_year - YearOf(today)) * 12 + shown[1].current_month - MonthOf(today)

\* change_month(direction), which ends with refresh_calendar()
ChangeMonth(direction) ==
    /\ MonthsAway + direction <= MaxMonths
    /\ MonthsAway + direction >= 0 - MaxMonths
    /\ shown' = Some(calendar_page(complaints,
                        change_month(shown[1].current_year, shown[1].current_month, direction)))
    /\ UNCHANGED <<cd, today, storeVars>>

\* the two buttons of the calendar
PreviousMonth == ChangeMonth(0 - 1)
FollowingMonth == ChangeMonth(1)

NextCalendar == PreviousMonth \/ FollowingMonth

SpecCalendar == InitCalendar /\ [][NextCalendar]_vars

-----------------------------------------------------------------------------
(* Claims about the calendar, under SpecCalendar *)

Page == shown[1]

\* the places of the entries in the deadlines dl
Places(dl) ==
    UNION { { <<j, k>> : k \in 1..Len(dl[j].entries) } : j \in 1..Len(dl) }

\* the record ids with an entry in the deadlines dl
Named(dl) == { dl[p[1]].entries[p[2]].comp_no : p \in Places(dl) }

\* the number of entries of the kind for the record id under the day d
CountOn(dl, d, id, kind) ==
    Cardinality({ p \in Places(dl) :
                    /\ dl[p[1]].day = d
                    /\ dl[p[1]].entries[p[2]].comp_no = id
                    /\ dl[p[1]].entries[p[2]].kind = kind })

\* the collection with its i-th record closed
Closed(i) == [complaints EXCEPT ![i].data.status = Some("closed")]

\* C21: month_deadlines(year, month) has no entry for a record whose status
\* is closed, and closing a record takes its entries out of every month: for
\* every month the calendar shows, the deadlines of that month found after
\* the record is closed have no entry for it.
C21_ClosedHasNoEntry ==
    \A i \in 1..Len(complaints) :
        /\ complaints[i].data.status = Some("closed")
             => complaints[i].id \notin Named(Page.deadlines)
        /\ complaints[i].id \notin
               Named(get_month_deadlines(Closed(i), Page.current_year, Page.current_month))

\* a closed record whose two deadlines fall in the month shown stands before
\* an open one, and only the open one is on the page
C21_Witness ==
    /\ Len(complaints) = 2
    /\ complaints[1].data.status = Some("closed")
    /\ complaints[1].data.manufacturer_sent_date = PyStr(FirstDate)
    /\ complaints[1].data.manufacturer_deadline_days = PyStr(Decimal(0))
    /\ complaints[2].data = BaseRecord
    /\ Page.current_month = MonthOf(strptime(PyStr(FirstDate)).n)
    /\ Named(Page.deadlines) = { complaints[2].id }

\* 1 when year-month-d is a date and is the day `days` after `date`, else 0
DueOn(date, days, year, month, d) ==
    IF /\ d <= DaysInMonth(year, month)
       /\ ToOrdinal(year, month, d) = strptime(date).n + py_int(days).n
    THEN 1 ELSE 0

\* C22: for every open record with parsable dates the page of (year, month)
\* has an own-deadline entry under the day d iff start_date + deadline_days is
\* year-month-d, and a manufacturer entry under d iff manufacturer_sent_date +
\* manufacturer_deadline_days is year-month-d, each decided without the other.
C22_EntryIffDue ==
    \A i \in 1..Len(complaints) : \A d \in 1..31 :
        LET e == complaints[i]
        IN  StatusOf(e.data) = "open" =>
              /\ (strptime(e.data.start_date).ok /\ WholeDays(e.data.deadline_days))
                   => CountOn(Page.deadlines, d, e.id, "Sajat hatarido")
                        = DueOn(e.data.start_date, e.data.deadline_days,
                                Page.current_year, Page.current_month, d)
              /\ (strptime(e.data.manufacturer_sent_date).ok
                    /\ WholeDays(e.data.manufacturer_deadline_days))
                   => CountOn(Page.deadlines, d, e.id, "Gyartoi hatarido")
                        = DueOn(e.data.manufacturer_sent_date,
                                e.data.manufacturer_deadline_days,
                                Page.current_year, Page.current_month, d)

\* C30: change_month(+1) and change_month(-1) keep current_month in 1..12;
\* +1 from month 12 gives month 1 of the next year, -1 from month 1 gives
\* month 12 of the year before, and +1 followed by -1 gives the month and
\* year back.
C30_MonthStaysInYear ==
    LET y == Page.current_year
        m == Page.current_month
        fwd == change_month(y, m, 1)
        back == change_month(y, m, 0 - 1)
    IN  /\ m \in 1..12
        /\ fwd.current_month \in 1..12
        /\ back.current_month \in 1..12
        /\ m = 12 => fwd = [current_year |-> y + 1, current_month |-> 1]
        /\ m = 1 => back = [current_year |-> y - 1, current_month |-> 12]
        /\ change_month(fwd.current_year, fwd.current_month, 0 - 1)
             = [current_year |-> y, current_month |-> m]

\* the calendar was turned back from January to December of the year before
C30_Witness ==
    /\ Page.current_month = 12
    /\ Page.current_year = YearOf(today) - 1

-----------------------------------------------------------------------------
(* The store when every copy and every removal of a file succeeds *)

\* add_media with shutil.copy2 succeeding
AttachFile ==
    /\ pc = "main"
    /\ \E sel \in Selections, file_path \in {None} \cup {Some(e) : e \in Exts},
          stamp \in 1..MaxStamp :
         /\ (~NoSelection(sel) /\ Has(complaints, sel[1]))
                => Len(Get(complaints, sel[1]).photos) < MaxPhotos
         /\ Handle("add_media", add_media(complaints, files, sel, file_path, stamp, TRUE))
    /\ UNCHANGED <<win, calcVars>>

\* delete_selected_file with os.remove succeeding
RemoveAttachment ==
    /\ pc = "details"
    /\ \E idx \in 0..Len(Get(complaints, win[1].comp_no).photos), confirm \in BOOLEAN :
           Handle("delete_selected_file",
                  delete_selected_file(complaints, files, win[1], idx, confirm, TRUE))
    /\ UNCHANGED <<win, calcVars>>

\* delete_complaint with every os.remove succeeding
RemoveRecord ==
    /\ pc = "main"
    /\ \E sel \in Selections, confirm \in BOOLEAN :
           Handle("delete_complaint", delete_complaint(complaints, files, sel, confirm, {}))
    /\ UNCHANGED <<win, calcVars>>

NextFiles ==
    \/ SaveNewComplaint(CreateForms)
    \/ AttachFile
    \/ ViewDetailsWindow(Selections)
    \/ RemoveAttachment
    \/ CancelDetails
    \/ RemoveRecord
    \/ WriteChunk
    \/ FinishSave

SpecFiles == Init /\ [][NextFiles]_vars

\* C26: after any sequence of attach-file, attachment-delete and record-delete
\* operations in which every copy and removal succeeds, every filename listed
\* in a record's attachment list names a file that exists in the attachment
\* directory.
C26_ListedFilesExist ==
    \A i \in 1..Len(complaints) : Range(complaints[i].data.photos) \subseteq files

-----------------------------------------------------------------------------
(* Claims about attaching and deleting files, under Spec *)

\* the number of times x is listed in s
CountIn(s, x) == Cardinality({ i \in 1..Len(s) : s[i] = x })

ChosenFiles == { Some(e) : e \in Exts }

\* C27: when the copy of an attach-file fails, no filename is added and
\* nothing is persisted; when the removal of the file fails in an
\* attachment-delete, the filename is removed from the record's list all the
\* same and the change is persisted.
C27_FailedCopyAndFailedRemoval ==
    /\ [](\A sel \in Selections, file_path \in ChosenFiles, stamp \in 1..MaxStamp :
            (~NoSelection(sel) /\ Has(complaints, sel[1])
               /\ Get(complaints, sel[1]).status # "closed")
                => add_media(complaints, files, sel, file_path, stamp, FALSE)
                       = Rejected(complaints, files, "copy_error"))
    /\ [][last'.msg = "copy_error"
            => (complaints' = complaints /\ disk' = disk /\ files' = files /\ pc' = pc)]_vars
    /\ [](pc = "details" =>
            LET photos == Get(complaints, win[1].comp_no).photos IN
            \A idx \in 1..Len(photos) :
                LET r == delete_selected_file(complaints, files, win[1], idx, TRUE, FALSE)
                    left == Get(r.complaints, win[1].comp_no).photos
                IN  /\ r.files = files
                    /\ r.save
                    /\ Len(left) = Len(photos) - 1
                    /\ CountIn(left, photos[idx]) = CountIn(photos, photos[idx]) - 1)
    /\ [][(last'.op = "delete_selected_file" /\ complaints' # complaints)
            => (pc' = "saving" /\ sv'.new = Doc(complaints'))]_vars

\* the only attachment was deleted from the list and the change saved, while
\* its file, which could not be removed, is still in the directory
C27_Witness ==
    /\ last = [op |-> "delete_selected_file", msg |-> "Siker"]
    /\ Keys(complaints) = {"A1"}
    /\ Get(complaints, "A1").photos = << >>
    /\ files # {}
    /\ disk = Doc(complaints)

\* C29: attaching a file to a record whose status is closed is refused with
\* the closed-record error: no file is copied and the attachment list, the
\* collection and the persisted document are unchanged; the attachment list
\* of a record never grows while its status is closed.
C29_ClosedRecordTakesNoFile ==
    /\ [](\A sel \in Selections, file_path \in {None} \cup ChosenFiles,
             stamp \in 1..MaxStamp, copy_ok \in BOOLEAN :
            (~NoSelection(sel) /\ Has(complaints, sel[1])
               /\ Get(complaints, sel[1]).status = "closed")
                => add_media(complaints, files, sel, file_path, stamp, copy_ok)
                       = Rejected(complaints, files, "closed_complaint"))
    /\ [][last'.msg = "closed_complaint"
            => (complaints' = complaints /\ disk' = disk /\ files' = files /\ pc' = pc)]_vars
    /\ [][\A k \in Keys(complaints) \cap Keys(complaints') :
            Get(complaints, k).status = "closed"
                => Len(Get(complaints', k).photos) <= Len(Get(complaints, k).photos)]_vars

\* a file was offered to a closed record that has an attachment, and refused
C29_Witness ==
    /\ last = [op |-> "add_media", msg |-> "closed_complaint"]
    /\ Keys(complaints) = {"A1"}
    /\ Get(complaints, "A1").status = "closed"
    /\ Len(Get(complaints, "A1").photos) = 1
    /\ files = Range(Get(complaints, "A1").photos)
    /\ disk = Doc(complaints)

====
